---- MODULE Spec2Model ----
(***************************************************************************)
(* A state-machine model of the movie recommendation backend:              *)
(*   backend/recommender.py  catalogue load, title resolution, ranking,    *)
(*                           trending, search, titles, poster lookups      *)
(*   backend/main.py         lifespan (startup) and the request handlers   *)
(*   backend/database.py     the users table                               *)
(*                                                                         *)
(* Strings are sequences of one-character strings.  Row positions are      *)
(* 1-based here (Python's are 0-based); a Python slice s[a:b] is PySlice.  *)
(* TF-IDF vectors are L2-normalised; they are kept in fixed point, scaled  *)
(* by 5, so that linear_kernel (a dot product) stays an integer.           *)
(***************************************************************************)
EXTENDS Integers, Sequences, FiniteSets, TLC

VARIABLES
    phase,             \* where the process is: lifespan's position, "serving" or "failed"
    pkl,               \* the pickled row table on disk (df.pkl; indices.pkl is consistent with it)
    df,                \* recommender.df
    indices,           \* recommender.indices
    tfidf_vectorizer,  \* recommender.tfidf_vectorizer
    tfidf_matrix,      \* recommender.tfidf_matrix
    resp,              \* the last response sent by a catalogue read handler
    TMDB_API_KEY,      \* recommender.TMDB_API_KEY: TRUE when a credential is configured
    poster_cache,      \* recommender._poster_cache
    lookups,           \* per thread: the _fetch_poster_path call it is running
    posterCalls,       \* per title: completed get_poster_url calls
    netCalls,          \* per title: requests sent to the provider by get_poster_url
    users,             \* the rows of the users table
    reqs               \* the register requests: input, worker process, position, outcome

catalogueVars == <<phase, pkl, df, indices, tfidf_vectorizer, tfidf_matrix, resp>>
posterVars == <<TMDB_API_KEY, poster_cache, lookups, posterCalls, netCalls>>
registerVars == <<users, reqs>>
vars == <<catalogueVars, posterVars, registerVars>>

----------------------------------------------------------------------------
(* Bounds of the model *)

MaxRows == 3        \* catalogue rows
MaxN == 2           \* n of get_recommendations ranges over 1..MaxN
MaxPage == 3        \* page of get_trending ranges over 1..MaxPage
MaxPerPage == 2     \* per_page of get_trending ranges over 1..MaxPerPage
MaxLimit == 2       \* explicit limits of get_all_titles range over 0..MaxLimit
MaxThreads == 2     \* threads calling _fetch_poster_path
MaxCalls == 2       \* get_poster_url calls per title
MaxReqs == 2        \* register requests
NumWorkers == 2     \* server worker processes sharing users.db

Min(a, b) == IF a <= b THEN a ELSE b

(* Python's s[a:b] for 0 <= a, 0 <= b. *)
PySlice(s, a, b) ==
    IF a >= Min(b, Len(s)) THEN <<>> ELSE SubSeq(s, a + 1, Min(b, Len(s)))

----------------------------------------------------------------------------
(* Strings *)

NaN == <<"NaN">>    \* a missing value (pandas NaN / None) in a string column
None == [none |-> TRUE]

LowerChar(c) == IF c = "A" THEN "a" ELSE c

(* str.lower() *)
lower(s) == [i \in 1..Len(s) |-> LowerChar(s[i])]

IsSpace(c) == c = " "

RECURSIVE lstrip(_)
lstrip(s) == IF s # <<>> /\ IsSpace(Head(s)) THEN lstrip(Tail(s)) ELSE s

RECURSIVE rstrip(_)
rstrip(s) ==
    IF s # <<>> /\ IsSpace(s[Len(s)]) THEN rstrip(SubSeq(s, 1, Len(s) - 1)) ELSE s

(* str.strip() *)
strip(s) == rstrip(lstrip(s))

(* Series.str.lower(): a missing value stays missing. *)
str_lower(v) == IF v = NaN THEN NaN ELSE lower(v)

(* re.compile(pat) succeeds.  Over the model's alphabet the only pattern   *)
(* that does not compile is one with "(", which is never closed.           *)
re_compiles(pat) == \A i \in 1..Len(pat) : pat[i] # "("

(* re.search(pat, s) finds a match: "." matches any character, every other *)
(* character of the alphabet matches itself.                               *)
re_search(pat, s) ==
    \E k \in 0..(Len(s) - Len(pat)) :
        \A i \in 1..Len(pat) : pat[i] = "." \/ pat[i] = s[k + i]

(* Series.str.contains(pat, na=False) on one value; regex=True is pandas'  *)
(* default and none of the calls overrides it.                             *)
str_contains(v, pat) == IF v = NaN THEN FALSE ELSE re_search(pat, v)

----------------------------------------------------------------------------
(* The catalogue on disk *)

Titles == { NaN, <<"A">>, <<"a">>, <<"a", " ">> }
TagDocs == { "", "x", "xy" }
Popularities == { 0, 1, 2 }

(* The catalogues of the model: those whose rows differ in title and tags  *)
(* (what resolution and ranking read) and those whose rows differ in       *)
(* popularity (what get_trending reads).                                   *)
TitleTagRows == [title : Titles, popularity : {0}, Tags : TagDocs]
PopularityRows == [title : {<<"A">>}, popularity : Popularities, Tags : {"x"}]

Catalogues ==
    UNION { [1..k -> TitleTagRows] \cup [1..k -> PopularityRows] : k \in 0..MaxRows }

(* The fitted vectorizer of tfIDF.pkl applied to one document: a unit      *)
(* vector over the vocabulary <<x, y>>, scaled by 5; the empty document    *)
(* has no term of the vocabulary and maps to the zero vector.              *)
transform(doc) ==
    IF doc = "x" THEN <<5, 0>> ELSE IF doc = "xy" THEN <<4, 3>> ELSE <<0, 0>>

(* sklearn's linear_kernel of one row against another: the dot product. *)
linear_kernel(u, v) == u[1] * v[1] + u[2] * v[2]

----------------------------------------------------------------------------
(* load_model, one step per statement group, run by lifespan *)

(* The titles and queries a caller sends. *)
Queries ==
    { <<" ", "a", " ">>, <<"A">>, <<".">>, <<"(">>, <<"z">> }

NoResp == [op |-> "none", arg |-> <<>>, n |-> 0, m |-> 0, status |-> 0, out |-> <<>>]

InitCatalogue ==
    /\ phase = "init_db"
    /\ pkl \in Catalogues
    /\ df = None
    /\ indices = None
    /\ tfidf_vectorizer = None
    /\ tfidf_matrix = None
    /\ resp = NoResp

(* lifespan: init_db() *)
init_db ==
    /\ phase = "init_db"
    /\ phase' = "load_df"
    /\ UNCHANGED <<pkl, df, indices, tfidf_vectorizer, tfidf_matrix, resp, posterVars, registerVars>>

(* df = pickle.load(f) *)
load_df ==
    /\ phase = "load_df"
    /\ df' = [rows |-> pkl]
    /\ phase' = "load_indices"
    /\ UNCHANGED <<pkl, indices, tfidf_vectorizer, tfidf_matrix, resp, posterVars, registerVars>>

(* indices = pickle.load(f): the title -> row position series, in          *)
(* catalogue order, with the titles as pickled (a missing title stays      *)
(* missing here: the fillna below touches df only).                        *)
load_indices ==
    /\ phase = "load_indices"
    /\ indices' = [entries |-> [i \in 1..Len(pkl) |-> [key |-> pkl[i].title, pos |-> i]]]
    /\ phase' = "load_vectorizer"
    /\ UNCHANGED <<pkl, df, tfidf_vectorizer, tfidf_matrix, resp, posterVars, registerVars>>

(* tfidf_vectorizer = pickle.load(f) *)
load_vectorizer ==
    /\ phase = "load_vectorizer"
    /\ tfidf_vectorizer' = [vocabulary |-> <<"x", "y">>]
    /\ phase' = "transform"
    /\ UNCHANGED <<pkl, df, indices, tfidf_matrix, resp, posterVars, registerVars>>

(* tfidf_matrix = tfidf_vectorizer.transform(df[tag_col]) *)
build_matrix ==
    /\ phase = "transform"
    /\ tfidf_matrix' = [vecs |-> [i \in 1..Len(df.rows) |-> transform(df.rows[i].Tags)]]
    /\ phase' = "fillna"
    /\ UNCHANGED <<pkl, df, indices, tfidf_vectorizer, resp, posterVars, registerVars>>

(* df["title"] = df["title"].fillna("") and the other column clean-ups;    *)
(* load_model returns and lifespan reaches its yield.                      *)
fillna ==
    /\ phase = "fillna"
    /\ df' = [rows |-> [i \in 1..Len(df.rows) |->
                  [df.rows[i] EXCEPT !.title = IF @ = NaN THEN <<>> ELSE @]]]
    /\ phase' = "serving"
    /\ UNCHANGED <<pkl, indices, tfidf_vectorizer, tfidf_matrix, resp, posterVars, registerVars>>

(* Any statement of init_db or load_model raises (a missing or corrupt     *)
(* pickle, a missing column): the exception leaves lifespan before its     *)
(* yield, startup fails, and the globals keep what was assigned so far.    *)
startup_fails ==
    /\ phase \in {"init_db", "load_df", "load_indices", "load_vectorizer", "transform", "fillna"}
    /\ phase' = "failed"
    /\ UNCHANGED <<pkl, df, indices, tfidf_vectorizer, tfidf_matrix, resp, posterVars, registerVars>>

(* Serving as it would be if lifespan reached its yield before load_model  *)
(* had run its last statements.                                            *)
Serving_before_load_ends == phase \in {"fillna", "serving"}

(* The server routes requests to the handlers only once lifespan has       *)
(* reached its yield.                                                      *)
Serving == phase = "serving"

----------------------------------------------------------------------------
(* recommender.py: the read operations *)

(* resolve as it would be if the substring match were tried first. *)
resolve_partial_first(title) ==
    LET title_lower == strip(lower(title))
        partial == SelectSeq(indices.entries,
                             LAMBDA e : str_contains(str_lower(e.key), title_lower))
    IN  IF ~re_compiles(title_lower) THEN [kind |-> "raise", idx |-> 0]
        ELSE IF partial = <<>> THEN [kind |-> "none", idx |-> 0]
        ELSE [kind |-> "partial", idx |-> partial[1].pos]

(* get_recommendations, lines 106-115: the row the title resolves to.      *)
(* kind is "exact", "partial", "none" (no match: the function returns [])  *)
(* or "raise" (str.contains could not compile the query as a pattern).     *)
resolve(title) ==
    LET title_lower == strip(lower(title))
        exact == SelectSeq(indices.entries,
                           LAMBDA e : str_lower(e.key) = title_lower)
        partial == SelectSeq(indices.entries,
                             LAMBDA e : str_contains(str_lower(e.key), title_lower))
    IN  IF exact # <<>> THEN [kind |-> "exact", idx |-> exact[1].pos]
        ELSE IF ~re_compiles(title_lower) THEN [kind |-> "raise", idx |-> 0]
        ELSE IF partial = <<>> THEN [kind |-> "none", idx |-> 0]
        ELSE [kind |-> "partial", idx |-> partial[1].pos]

(* cosine_sim = linear_kernel(tfidf_matrix[idx:idx+1], tfidf_matrix).flatten() *)
cosine_sim(idx) ==
    [j \in 1..Len(tfidf_matrix.vecs) |->
        linear_kernel(tfidf_matrix.vecs[idx], tfidf_matrix.vecs[j])]

(* sorted(enumerate(score), key=lambda x: x[1], reverse=True): Python's    *)
(* sort is stable, also with reverse=True, so equal scores keep their      *)
(* original order.  S is the set of positions still to place.              *)
RECURSIVE sorted_reverse(_, _)
sorted_reverse(S, score) ==
    IF S = {} THEN <<>>
    ELSE LET first == CHOOSE i \in S :
                 \A j \in S : score[i] > score[j] \/ (score[i] = score[j] /\ i <= j)
         IN  <<first>> \o sorted_reverse(S \ {first}, score)

(* get_recommendations, lines 117-128: rank, drop the first, keep n. *)
top_similar(idx, n) ==
    LET score == cosine_sim(idx)
        sim_scores == sorted_reverse(DOMAIN score, score)
    IN  PySlice(sim_scores, 1, n + 1)

(* get_recommendations(title, n): the positions of the rows returned. *)
get_recommendations(title, n) ==
    LET r == resolve(title)
    IN  IF r.kind = "raise" THEN [raised |-> TRUE, rows |-> <<>>]
        ELSE IF r.kind = "none" THEN [raised |-> FALSE, rows |-> <<>>]
        ELSE [raised |-> FALSE, rows |-> top_similar(r.idx, n)]

(* df.sort_values("popularity", ascending=False): pandas sorts with        *)
(* kind="quicksort" unless told otherwise, and that sort is not stable, so *)
(* rows of equal popularity come out in an order the library chooses.      *)
(* The set of orders the call can return.                                  *)
sort_values(rows) ==
    { p \in [1..Len(rows) -> 1..Len(rows)] :
        /\ \A i, j \in 1..Len(rows) : i # j => p[i] # p[j]
        /\ \A i, j \in 1..Len(rows) :
               i < j => rows[p[i]].popularity >= rows[p[j]].popularity }

(* get_trending(page, per_page), given the sorted frame. *)
get_trending(sorted_df, page, per_page) ==
    LET start == (page - 1) * per_page
        end == start + per_page
    IN  PySlice(sorted_df, start, end)

SearchLimit == 20

(* search_movies(query, limit) *)
search_movies(query, limit) ==
    LET query_lower == strip(lower(query))
        hits == SelectSeq([i \in 1..Len(df.rows) |-> i],
                          LAMBDA i : str_contains(lower(df.rows[i].title), query_lower))
    IN  IF ~re_compiles(query_lower) THEN [raised |-> TRUE, rows |-> <<>>]
        ELSE [raised |-> FALSE, rows |-> PySlice(hits, 0, limit)]

(* Series.dropna() *)
dropna(s) == SelectSeq(s, LAMBDA v : v # NaN)

(* Series.unique(): the distinct values in order of first occurrence. *)
RECURSIVE unique(_)
unique(s) ==
    IF s = <<>> THEN <<>>
    ELSE LET init == unique(SubSeq(s, 1, Len(s) - 1))
             last == s[Len(s)]
         IN  IF \E i \in 1..Len(init) : init[i] = last THEN init
             ELSE Append(init, last)

DefaultLimit == 50000

(* get_all_titles(limit) *)
get_all_titles(limit) ==
    PySlice(unique(dropna([i \in 1..Len(df.rows) |-> df.rows[i].title])), 0, limit)

----------------------------------------------------------------------------
(* main.py: the catalogue read handlers (the caller's token is valid).     *)
(* resp.out holds the positions of the rows returned (_build_movie turns   *)
(* each row into its display record) or, for the titles, the titles.       *)
(* The handlers are coroutines without an await: the event loop runs each  *)
(* to its end before it takes the next request.  resp is the response of   *)
(* the request in hand, NoResp when the loop is idle.                      *)

(* GET /api/movies/recommend/{title}: an exception leaves the handler and  *)
(* the framework answers 500; an empty list is answered 404.               *)
recommend_movies(title, n) ==
    /\ Serving
    /\ resp = NoResp
    /\ LET movies == get_recommendations(title, n)
       IN  resp' = [op |-> "recommend", arg |-> title, n |-> n, m |-> 0,
                    status |-> IF movies.raised THEN 500
                               ELSE IF movies.rows = <<>> THEN 404 ELSE 200,
                    out |-> movies.rows]
    /\ UNCHANGED <<phase, pkl, df, indices, tfidf_vectorizer, tfidf_matrix, posterVars, registerVars>>

(* GET /api/movies/trending *)
trending_movies(page, per_page) ==
    /\ Serving
    /\ resp = NoResp
    /\ \E sorted_df \in sort_values(df.rows) :
           resp' = [op |-> "trending", arg |-> <<>>, n |-> page, m |-> per_page,
                    status |-> 200, out |-> get_trending(sorted_df, page, per_page)]
    /\ UNCHANGED <<phase, pkl, df, indices, tfidf_vectorizer, tfidf_matrix, posterVars, registerVars>>

(* GET /api/movies/search *)
search_handler(q) ==
    /\ Serving
    /\ resp = NoResp
    /\ LET movies == search_movies(q, SearchLimit)
       IN  resp' = [op |-> "search", arg |-> q, n |-> SearchLimit, m |-> 0,
                    status |-> IF movies.raised THEN 500 ELSE 200,
                    out |-> movies.rows]
    /\ UNCHANGED <<phase, pkl, df, indices, tfidf_vectorizer, tfidf_matrix, posterVars, registerVars>>

(* GET /api/movies/titles calls get_all_titles() with its default limit;   *)
(* the smaller limits are direct calls of get_all_titles(limit).           *)
all_titles(limit) ==
    /\ Serving
    /\ resp = NoResp
    /\ resp' = [op |-> "titles", arg |-> <<>>, n |-> limit, m |-> 0,
                status |-> 200, out |-> get_all_titles(limit)]
    /\ UNCHANGED <<phase, pkl, df, indices, tfidf_vectorizer, tfidf_matrix, posterVars, registerVars>>

(* The response is sent and the event loop takes the next request. *)
send_response ==
    /\ resp # NoResp
    /\ resp' = NoResp
    /\ UNCHANGED <<phase, pkl, df, indices, tfidf_vectorizer, tfidf_matrix, posterVars, registerVars>>

Next ==
    \/ init_db
    \/ load_df
    \/ load_indices
    \/ load_vectorizer
    \/ build_matrix
    \/ fillna
    \/ startup_fails
    \/ \E title \in Queries, n \in 1..MaxN : recommend_movies(title, n)
    \/ \E page \in 1..MaxPage, per_page \in 1..MaxPerPage : trending_movies(page, per_page)
    \/ \E q \in Queries : search_handler(q)
    \/ \E limit \in (0..MaxLimit) \cup {DefaultLimit} : all_titles(limit)
    \/ send_response

----------------------------------------------------------------------------
(* recommender.py: poster lookups *)

PosterTitles == { "Avatar", "Up" }
PosterPaths == { "/a.jpg", "/b.jpg" }
TMDB_IMG_BASE == "https://image.tmdb.org/t/p/w500"
EmptyUrl == <<>>

(* What requests.get can end in: a 200 whose first result has a            *)
(* poster_path, a 200 without results or without a poster_path, another    *)
(* status code, or an exception (a timeout, a network error).              *)
ProviderOutcomes ==
    [kind : {"poster"}, path : PosterPaths]
        \cup [kind : {"no_poster", "non_200", "exception"}, path : {""}]

(* The url the lookup returns for an outcome: TMDB_IMG_BASE + poster_path, *)
(* or the empty string.                                                    *)
poster_url(outcome) ==
    IF outcome.kind = "poster" THEN <<TMDB_IMG_BASE, outcome.path>> ELSE EmptyUrl

Threads == 1..MaxThreads
Idle == [pc |-> "idle", title |-> "", ret |-> EmptyUrl]

InitPoster ==
    /\ TMDB_API_KEY \in BOOLEAN
    /\ poster_cache = <<>>
    /\ lookups = [th \in Threads |-> Idle]
    /\ posterCalls = [t \in PosterTitles |-> 0]
    /\ netCalls = [t \in PosterTitles |-> 0]

(* _fetch_poster_path, lines 66-75: the cache check, the credential check  *)
(* and the request being sent.  The thread then blocks in requests.get.    *)
fetch_begin(th, title) ==
    /\ lookups[th].pc \in {"idle", "returned"}
    /\ IF title \in DOMAIN poster_cache
         THEN lookups' = [lookups EXCEPT ![th] =
                  [pc |-> "returned", title |-> title, ret |-> poster_cache[title]]]
         ELSE IF ~TMDB_API_KEY
         THEN lookups' = [lookups EXCEPT ![th] =
                  [pc |-> "returned", title |-> title, ret |-> EmptyUrl]]
         ELSE lookups' = [lookups EXCEPT ![th] =
                  [pc |-> "requesting", title |-> title, ret |-> EmptyUrl]]
    /\ UNCHANGED <<TMDB_API_KEY, poster_cache, posterCalls, netCalls, catalogueVars, registerVars>>

(* _fetch_poster_path, lines 76-86: the request ends and the result is     *)
(* written to the cache, whatever the cache holds by now.                  *)
fetch_end(th, outcome) ==
    /\ lookups[th].pc = "requesting"
    /\ LET title == lookups[th].title
           url == poster_url(outcome)
       IN  /\ poster_cache' =
                 [t \in DOMAIN poster_cache \cup {title} |->
                     IF t = title THEN url ELSE poster_cache[t]]
           /\ lookups' = [lookups EXCEPT ![th] =
                 [pc |-> "returned", title |-> title, ret |-> url]]
    /\ UNCHANGED <<TMDB_API_KEY, posterCalls, netCalls, catalogueVars, registerVars>>

(* get_poster_url(title), the function GET /api/movies/poster calls: with  *)
(* a credential it sends the request, whatever was looked up before, and   *)
(* returns what the provider answers; it neither reads nor writes          *)
(* _poster_cache.                                                          *)
get_poster_url(title) ==
    /\ posterCalls[title] < MaxCalls
    /\ posterCalls' = [posterCalls EXCEPT ![title] = @ + 1]
    /\ netCalls' = [netCalls EXCEPT ![title] = IF TMDB_API_KEY THEN @ + 1 ELSE @]
    /\ UNCHANGED <<TMDB_API_KEY, poster_cache, lookups, catalogueVars, registerVars>>

PosterNext ==
    \/ \E th \in Threads, title \in PosterTitles : fetch_begin(th, title)
    \/ \E th \in Threads, outcome \in ProviderOutcomes : fetch_end(th, outcome)
    \/ \E title \in PosterTitles : get_poster_url(title)

----------------------------------------------------------------------------
(* main.py register and database.py: the users table *)

Usernames == { <<"a", "l">>, <<"b", "o", "b">>, <<"e", "v", "e", "1">> }
Emails == { "x@mail", "y@mail" }
Passwords == { <<"p", "w">>, <<"s", "e", "c", "r", "e", "t">> }

MinUsernameLen == 3
MinPasswordLen == 6

Reqs == 1..MaxReqs
Workers == 1..NumWorkers

NoReq == [username |-> <<>>, email |-> "", password |-> <<>>, worker |-> 0,
          pc |-> "idle", status |-> 0]

InitRegister ==
    /\ users = {}
    /\ reqs = [r \in Reqs |-> NoReq]

(* get_user_by_username(username) is not None *)
get_user_by_username(username) == \E u \in users : u.username = username

(* get_user_by_email(email) is not None *)
get_user_by_email(email) == \E u \in users : u.email = email

(* A worker's event loop runs one register coroutine at a time: the        *)
(* handler has no await.  Handlers of different worker processes           *)
(* interleave between their statements on users.db, each of which opens    *)
(* its own connection.                                                     *)
WorkerBusy(w) == \E r \in Reqs : reqs[r].worker = w /\ reqs[r].pc \in {"check_email", "insert"}

Answer(r, code) == [reqs EXCEPT ![r].pc = "done", ![r].status = code]

(* register, lines 45-50: the length checks and the username lookup. *)
register_begin(r, w, username, email, password) ==
    /\ reqs[r].pc = "idle"
    /\ ~WorkerBusy(w)
    /\ LET req == [username |-> username, email |-> email, password |-> password,
                   worker |-> w, pc |-> "check_email", status |-> 0]
       IN  reqs' = [reqs EXCEPT ![r] =
                IF Len(username) < MinUsernameLen \/ Len(password) < MinPasswordLen
                    THEN [req EXCEPT !.pc = "done", !.status = 400]
                ELSE IF get_user_by_username(username)
                    THEN [req EXCEPT !.pc = "done", !.status = 409]
                ELSE req]
    /\ UNCHANGED <<users, catalogueVars, posterVars>>

(* register, lines 51-52: the email lookup. *)
register_check_email(r) ==
    /\ reqs[r].pc = "check_email"
    /\ reqs' = IF get_user_by_email(reqs[r].email)
                   THEN Answer(r, 409)
                   ELSE [reqs EXCEPT ![r].pc = "insert"]
    /\ UNCHANGED <<users, catalogueVars, posterVars>>

(* register, lines 54-59, and create_user: the INSERT violates a UNIQUE    *)
(* constraint (sqlite3.IntegrityError, create_user returns False, the      *)
(* handler answers 500) or adds the row.                                   *)
register_create_user(r) ==
    /\ reqs[r].pc = "insert"
    /\ IF get_user_by_username(reqs[r].username) \/ get_user_by_email(reqs[r].email)
         THEN /\ reqs' = Answer(r, 500)
              /\ UNCHANGED users
         ELSE /\ users' = users \cup
                     {[id |-> Cardinality(users) + 1,
                       username |-> reqs[r].username, email |-> reqs[r].email]}
              /\ reqs' = Answer(r, 200)
    /\ UNCHANGED <<catalogueVars, posterVars>>

RegisterNext ==
    \/ \E r \in Reqs, w \in Workers, username \in Usernames, email \in Emails,
          password \in Passwords : register_begin(r, w, username, email, password)
    \/ \E r \in Reqs : register_check_email(r)
    \/ \E r \in Reqs : register_create_user(r)

----------------------------------------------------------------------------
(* Specifications *)

(* The catalogue: startup, then the read handlers. *)
Init == InitCatalogue /\ InitPoster /\ TMDB_API_KEY /\ InitRegister
Spec == Init /\ [][Next]_vars

(* Poster lookups. *)
PosterInit ==
    /\ InitPoster /\ InitRegister
    /\ phase = "serving" /\ pkl = <<>> /\ df = [rows |-> <<>>]
    /\ indices = [entries |-> <<>>] /\ tfidf_vectorizer = [vocabulary |-> <<"x", "y">>]
    /\ tfidf_matrix = [vecs |-> <<>>] /\ resp = NoResp
PosterSpec == PosterInit /\ [][PosterNext]_vars

(* Registration. *)
RegisterInit ==
    /\ InitRegister /\ InitPoster /\ TMDB_API_KEY
    /\ phase = "serving" /\ pkl = <<>> /\ df = [rows |-> <<>>]
    /\ indices = [entries |-> <<>>] /\ tfidf_vectorizer = [vocabulary |-> <<"x", "y">>]
    /\ tfidf_matrix = [vecs |-> <<>>] /\ resp = NoResp
RegisterSpec == RegisterInit /\ [][RegisterNext]_vars

----------------------------------------------------------------------------
(* Properties of the catalogue reads (checked under Spec) *)

Resolved(title) == resolve(title).kind \in {"exact", "partial"}

Elems(s) == { s[k] : k \in 1..Len(s) }

(* C1: the rows get_recommendations returns for a title never include the  *)
(* row the title resolves to, whatever the TF-IDF vectors of the catalogue *)
(* (rows with identical or all-zero vectors included).                     *)
C1_ResolvedRowExcluded ==
    (resp.op = "recommend" /\ Resolved(resp.arg)) =>
        resolve(resp.arg).idx \notin Elems(resp.out)

(* q equals the title t up to letter case and surrounding whitespace. *)
EqualUpToCaseAndSpace(q, t) == lower(strip(q)) = lower(strip(t))

(* The first row in catalogue order whose title is t (titles are           *)
(* case-insensitive keys).                                                 *)
FirstRowTitled(t) ==
    CHOOSE j \in 1..Len(indices.entries) :
        /\ str_lower(indices.entries[j].key) = lower(t)
        /\ \A k \in 1..(j - 1) : str_lower(indices.entries[k].key) # lower(t)

(* An exact match is preferred: when some title equals the normalised      *)
(* query, the first such row is the one resolved.                          *)
ExactMatchFirst(q) ==
    (\E j \in 1..Len(indices.entries) :
         str_lower(indices.entries[j].key) = strip(lower(q)))
    => /\ resolve(q).kind = "exact"
       /\ resolve(q).idx = FirstRowTitled(strip(lower(q)))

(* C3 as stated: for every title t of the catalogue and every query equal  *)
(* to t up to letter case and surrounding whitespace, the row resolved is  *)
(* the first row titled t, and an exact match is preferred to a substring  *)
(* match.                                                                  *)
C3_AnyTitleResolvesToItsRow ==
    resp.op = "recommend" =>
        /\ \A i \in 1..Len(indices.entries) :
               LET t == indices.entries[i].key
               IN  (t # NaN /\ EqualUpToCaseAndSpace(resp.arg, t)) =>
                       /\ Resolved(resp.arg)
                       /\ resolve(resp.arg).idx = FirstRowTitled(t)
        /\ ExactMatchFirst(resp.arg)

(* C3 as amended: the same for every title t of the catalogue that has no  *)
(* leading or trailing whitespace; the row resolved is then found by the   *)
(* exact match.                                                            *)
C3_TrimmedTitleResolvesToItsRow ==
    resp.op = "recommend" =>
        /\ \A i \in 1..Len(indices.entries) :
               LET t == indices.entries[i].key
               IN  (t # NaN /\ strip(t) = t /\ EqualUpToCaseAndSpace(resp.arg, t)) =>
                       /\ resolve(resp.arg).kind = "exact"
                       /\ resolve(resp.arg).idx = FirstRowTitled(t)
        /\ ExactMatchFirst(resp.arg)

(* p occurs in s as a plain substring. *)
IsSubstring(p, s) ==
    \E k \in 0..(Len(s) - Len(p)) : \A i \in 1..Len(p) : p[i] = s[k + i]

(* C3's case: a recommend request whose query differs from a trimmed title *)
(* in case or whitespace, resolved to that title's row although an earlier *)
(* row contains the query as a substring without being equal to it.        *)
C3_Witness ==
    /\ resp.op = "recommend"
    /\ \E i \in 1..Len(indices.entries) :
           LET t == indices.entries[i].key
           IN  /\ t # NaN /\ strip(t) = t /\ resp.arg # t
               /\ EqualUpToCaseAndSpace(resp.arg, t)
               /\ resolve(resp.arg).idx = i
               /\ \E j \in 1..(i - 1) :
                      /\ indices.entries[j].key # NaN
                      /\ lower(indices.entries[j].key) # strip(lower(resp.arg))
                      /\ IsSubstring(strip(lower(resp.arg)), lower(indices.entries[j].key))

(* The popularity order with ties in catalogue order. *)
StableByPopularity ==
    CHOOSE p \in sort_values(df.rows) :
        \A i, j \in 1..Len(df.rows) :
            (i < j /\ df.rows[p[i]].popularity = df.rows[p[j]].popularity) => p[i] < p[j]

(* C4: page `page` of get_trending is the slice                            *)
(* [(page-1)*per_page, page*per_page) of the catalogue sorted by           *)
(* popularity descending with ties in catalogue order: the pages are       *)
(* non-increasing, disjoint, together the whole catalogue, and empty       *)
(* beyond the last row.                                                    *)
C4_TrendingPagesOfStableOrder ==
    resp.op = "trending" =>
        resp.out = PySlice(StableByPopularity, (resp.n - 1) * resp.m, resp.n * resp.m)

(* C6: get_all_titles(limit) returns non-empty titles only, each distinct  *)
(* title once, in order of first occurrence, and at most limit of them.    *)
C6_TitlesNonEmptyDistinctCapped ==
    resp.op = "titles" =>
        /\ \A k \in 1..Len(resp.out) : resp.out[k] # <<>> /\ resp.out[k] # NaN
        /\ \A k, l \in 1..Len(resp.out) : k # l => resp.out[k] # resp.out[l]
        /\ Len(resp.out) <= resp.n
        /\ resp.out =
               PySlice(unique(SelectSeq([i \in 1..Len(pkl) |-> pkl[i].title],
                                        LAMBDA t : t # NaN /\ t # <<>>)), 0, resp.n)

(* No title of the catalogue equals the query or contains it, letter case  *)
(* and the query's surrounding whitespace aside.                           *)
NoPlainMatch(q) ==
    \A i \in 1..Len(indices.entries) :
        \/ indices.entries[i].key = NaN
        \/ ~IsSubstring(strip(lower(q)), lower(indices.entries[i].key))

(* C7: a query that matches no title exactly or as a substring gets an     *)
(* empty result without an exception, which the endpoint answers 404; 404  *)
(* is answered for an empty result only, and a non-empty result is a       *)
(* success.                                                                *)
C7_NoMatchIsEmptyAnd404 ==
    resp.op = "recommend" =>
        /\ NoPlainMatch(resp.arg) => (resp.out = <<>> /\ resp.status = 404)
        /\ resp.out # <<>> => resp.status = 200
        /\ resp.status = 404 => resp.out = <<>>

(* load_model has run to its end. *)
ModelLoaded ==
    /\ df # None /\ indices # None /\ tfidf_vectorizer # None /\ tfidf_matrix # None
    /\ Len(tfidf_matrix.vecs) = Len(df.rows)
    /\ \A i \in 1..Len(df.rows) : df.rows[i].title # NaN

(* C8: a read is served only when load_model has completed, and a process  *)
(* whose startup failed, even with some of the globals assigned, serves no *)
(* read.                                                                   *)
C8_NoReadBeforeLoad ==
    /\ resp # NoResp => (phase = "serving" /\ ModelLoaded)
    /\ phase # "serving" => resp = NoResp

(* C8's case: a read answered from a loaded catalogue with rows. *)
C8_Witness ==
    /\ resp.op \in {"recommend", "trending", "search", "titles"}
    /\ phase = "serving"
    /\ ModelLoaded
    /\ Len(df.rows) > 0

(* C9: for a resolved title, get_recommendations returns min(n, N-1) rows, *)
(* none of them the resolved row, ordered by similarity descending with    *)
(* ties in catalogue order, and each returned row ranks before every row   *)
(* left out other than the resolved one.                                   *)
C9_TopNOfRanking ==
    (resp.op = "recommend" /\ Resolved(resp.arg)) =>
        LET idx == resolve(resp.arg).idx
            score == cosine_sim(idx)
            others == DOMAIN score \ {idx}
            returned == Elems(resp.out)
            Before(i, j) == score[i] > score[j] \/ (score[i] = score[j] /\ i < j)
        IN  /\ Len(resp.out) = Min(resp.n, Cardinality(others))
            /\ Cardinality(returned) = Len(resp.out)
            /\ returned \subseteq others
            /\ \A k, l \in 1..Len(resp.out) : k < l => Before(resp.out[k], resp.out[l])
            /\ \A i \in returned, j \in others \ returned : Before(i, j)

----------------------------------------------------------------------------
(* Properties of the poster lookups (checked under PosterSpec) *)

(* C2: with a credential configured, the first two get_poster_url calls    *)
(* for a title send at most one request to the provider.                   *)
C2_SecondCallFromCache ==
    \A t \in PosterTitles :
        (TMDB_API_KEY /\ posterCalls[t] >= 2) => netCalls[t] <= 1

(* C10: under concurrent _fetch_poster_path calls a cache entry, once      *)
(* written, keeps its value: it is not removed and not overwritten with    *)
(* another value (an url by the empty string, or by another url).          *)
C10_CacheEntryKeepsValue ==
    [][\A t \in DOMAIN poster_cache :
           t \in DOMAIN poster_cache' /\ poster_cache'[t] = poster_cache[t]]_vars

----------------------------------------------------------------------------
(* Properties of registration (checked under RegisterSpec) *)

ValidLengths(q) ==
    Len(q.username) >= MinUsernameLen /\ Len(q.password) >= MinPasswordLen

(* The request was answered without storing its user although a stored     *)
(* user has its username or its email.                                     *)
Collided(q) ==
    /\ q.pc = "done" /\ q.status # 200
    /\ \E u \in users : u.username = q.username \/ u.email = q.email

(* C5: a request with a valid-length username and password that collides   *)
(* with a stored user is answered 409, never 400 or 500, and no two user   *)
(* rows share a username or an email.                                      *)
C5_CollisionIs409 ==
    /\ \A r \in Reqs : (ValidLengths(reqs[r]) /\ Collided(reqs[r])) => reqs[r].status = 409
    /\ \A u, v \in users : u # v => (u.username # v.username /\ u.email # v.email)

====
